---- MODULE Spec2Model ----
(***************************************************************************)
(* Cataloger of household objects: the catalog tree held in memory, the    *)
(* recursive search / delete / modify functions of catalog_manage.py, the  *)
(* handlers of catalog_interface.py that call them and re-save the whole   *)
(* tree, and the load and save of data_storage.py.                         *)
(*                                                                         *)
(* A container (a Python dict) is a record; a key the dict lacks is a      *)
(* field the record lacks, so dict.get(key, default) is a test on DOMAIN.  *)
(* A reference to a dict inside the tree is the sequence of list indices   *)
(* leading to it from the root (1-based): child-container indices, then,   *)
(* for an object, its index in the last container's "objects" list.        *)
(***************************************************************************)
EXTENDS Integers, Sequences, FiniteSets, TLC

\* ---- bounds of the model ------------------------------------------------
MaxObjects == 2
MaxContainers == 3

\* ---- inputs the user may type (already stripped and lower-cased) ---------
ObjectNames == {"a", "b"}
Categories == {"x", "y"}
ContainerNames == {"house", "garage"}
Blank == ""

VARIABLES
    data,       \* the in-memory catalog (user_menu.data)
    file,       \* what data/house_catalog.json holds: see Document, NoFile, NotJson
    loaded,     \* whether load_json_file returned the parsed document
    call,       \* the last handler that ran, with the lines the user typed
    result,     \* what the core function called by that handler returned
    saved,      \* what that handler did about saving: "none", "ok", "failed"
    disk,       \* what the operating system lets the process do to the file
    pc,         \* the prompt the program waits at
    new_container,  \* add_object_in_catalog's local new_container, while it runs
    crashed     \* the exception that escaped and ended the process, or "no"

vars == <<data, file, loaded, call, result, saved, disk, pc, new_container, crashed>>

\* ---- Python values -------------------------------------------------------
\* None, as returned by get_object / get_container_by_name (no reference
\* contains the index 0).
None == <<0>>

\* d.get(key, default)
Get(d, key, default) == IF key \in DOMAIN d THEN d[key] ELSE default

\* d.get("name") == name, for a name that is a string
NameIs(d, name) == "name" \in DOMAIN d /\ d.name = name

\* d[key] = value on a dict (adds the key when absent)
SetItem(d, key, value) ==
    [k \in DOMAIN d \cup {key} |-> IF k = key THEN value ELSE d[k]]

\* the result of a call that may raise KeyError
Return(v) == [raised |-> FALSE, value |-> v]
KeyError == [raised |-> TRUE, value |-> <<>>]

\* `for object in objects: if object.get("name") == name` : the index of the
\* first object of the list, from position i on, that the loop stops at; 0
\* when the loop runs to its end.
RECURSIVE FirstNamed(_, _, _)
FirstNamed(objects, name, i) ==
    IF i > Len(objects) THEN 0
    ELSE IF NameIs(objects[i], name) THEN i
    ELSE FirstNamed(objects, name, i + 1)

\* list.remove(x): drops the first element equal to x
RECURSIVE IndexOf(_, _, _)
IndexOf(list, x, i) ==
    IF i > Len(list) THEN 0
    ELSE IF list[i] = x THEN i
    ELSE IndexOf(list, x, i + 1)

list_remove(list, x) ==
    LET k == IndexOf(list, x, 1)
    IN  [j \in 1..(Len(list) - 1) |-> IF j < k THEN list[j] ELSE list[j + 1]]

\* ---- references into the tree --------------------------------------------
\* the container a container reference denotes
RECURSIVE ContainerAt(_, _)
ContainerAt(node, ref) ==
    IF ref = <<>> THEN node
    ELSE ContainerAt(node.containers[Head(ref)], Tail(ref))

\* the object an object reference denotes
ObjectAt(node, ref) ==
    ContainerAt(node, SubSeq(ref, 1, Len(ref) - 1)).objects[ref[Len(ref)]]

\* the tree after the container behind ref has become c
RECURSIVE StoreContainer(_, _, _)
StoreContainer(node, ref, c) ==
    IF ref = <<>> THEN c
    ELSE [node EXCEPT !.containers[Head(ref)] =
                          StoreContainer(@, Tail(ref), c)]

\* the tree after the object behind ref has become o
StoreObject(node, ref, o) ==
    LET cref == SubSeq(ref, 1, Len(ref) - 1)
        c    == ContainerAt(node, cref)
    IN  StoreContainer(node, cref, [c EXCEPT !.objects[ref[Len(ref)]] = o])

\* ---- catalog_manage.py ---------------------------------------------------
RECURSIVE get_object_info(_, _), get_object_info_containers(_, _, _)
\* variant: the container's name is put in front of the names found below it
get_object_info_root_first(data_, object_to_search, j) ==
    LET containers == Get(data_, "containers", <<>>)
    IN  IF j > Len(containers) THEN Return(<<>>)
        ELSE LET r == get_object_info(containers[j], object_to_search)
             IN  IF r.raised THEN KeyError
                 ELSE IF r.value # <<>>
                 THEN IF "name" \in DOMAIN data_
                      THEN Return(SubSeq(r.value, 1, 2) \o <<data_.name>>
                                  \o SubSeq(r.value, 3, Len(r.value)))
                      ELSE KeyError
                 ELSE get_object_info_containers(data_, object_to_search, j + 1)

get_object_info_containers(data_, object_to_search, j) ==
    LET containers == Get(data_, "containers", <<>>)
    IN  IF j > Len(containers) THEN Return(<<>>)
        ELSE LET r == get_object_info(containers[j], object_to_search)
             IN  IF r.raised THEN KeyError
                 ELSE IF r.value # <<>>
                 THEN IF "name" \in DOMAIN data_
                      THEN Return(r.value \o <<data_.name>>)
                      ELSE KeyError
                 ELSE get_object_info_containers(data_, object_to_search, j + 1)

get_object_info(data_, object_to_search) ==
    LET objects == Get(data_, "objects", <<>>)
        i == FirstNamed(objects, object_to_search, 1)
    IN  IF i # 0
        THEN IF "category" \in DOMAIN objects[i] /\ "name" \in DOMAIN data_
             THEN Return(<<objects[i].name, objects[i].category, data_.name>>)
             ELSE KeyError
        ELSE get_object_info_containers(data_, object_to_search, 1)

\* delete_object returns its boolean and mutates the tree in place: ok is the
\* boolean, data the tree afterwards.
RECURSIVE delete_object(_, _), delete_object_containers(_, _, _)
\* variant: the child containers are visited from the last to the first
delete_object_containers_reversed(data_, object_name, j) ==
    LET containers == Get(data_, "containers", <<>>)
        k == Len(containers) + 1 - j
    IN  IF j > Len(containers) THEN [ok |-> FALSE, data |-> data_]
        ELSE LET r == delete_object(containers[k], object_name)
             IN  IF r.ok
                 THEN [ok |-> TRUE,
                       data |-> [data_ EXCEPT !.containers[k] = r.data]]
                 ELSE delete_object_containers(data_, object_name, j + 1)

delete_object_containers(data_, object_name, j) ==
    LET containers == Get(data_, "containers", <<>>)
    IN  IF j > Len(containers) THEN [ok |-> FALSE, data |-> data_]
        ELSE LET r == delete_object(containers[j], object_name)
             IN  IF r.ok
                 THEN [ok |-> TRUE,
                       data |-> [data_ EXCEPT !.containers[j] = r.data]]
                 ELSE delete_object_containers(data_, object_name, j + 1)

\* variant: every object of the list that bears the name is dropped
delete_object_all_named(data_, object_name) ==
    LET objects_list == Get(data_, "objects", <<>>)
        i == FirstNamed(objects_list, object_name, 1)
    IN  IF i # 0
        THEN [ok |-> TRUE,
              data |-> [data_ EXCEPT
                           !.objects = SelectSeq(objects_list,
                                LAMBDA o : ~NameIs(o, object_name))]]
        ELSE delete_object_containers(data_, object_name, 1)

delete_object(data_, object_name) ==
    LET objects_list == Get(data_, "objects", <<>>)
        i == FirstNamed(objects_list, object_name, 1)
    IN  IF i # 0
        THEN [ok |-> TRUE,
              data |-> [data_ EXCEPT
                           !.objects = list_remove(objects_list, objects_list[i])]]
        ELSE delete_object_containers(data_, object_name, 1)

\* get_object returns a reference to the dict of the object, or None.  The
\* `if result:` test of the loop is a test against None: a dict that matched
\* a name holds the key "name" and is therefore never empty.
RECURSIVE get_object(_, _), get_object_containers(_, _, _)
\* variant: the search returns whatever the first child container yields
get_object_first_child_only(data_, object_name, j) ==
    LET containers == Get(data_, "containers", <<>>)
    IN  IF j > Len(containers) THEN None
        ELSE LET r == get_object(containers[j], object_name)
             IN  IF r # None THEN <<j>> \o r ELSE None

get_object_containers(data_, object_name, j) ==
    LET containers == Get(data_, "containers", <<>>)
    IN  IF j > Len(containers) THEN None
        ELSE LET r == get_object(containers[j], object_name)
             IN  IF r # None THEN <<j>> \o r
                 ELSE get_object_containers(data_, object_name, j + 1)

get_object(data_, object_name) ==
    LET i == FirstNamed(Get(data_, "objects", <<>>), object_name, 1)
    IN  IF i # 0 THEN <<i>>
        ELSE get_object_containers(data_, object_name, 1)

\* variant: both attributes are overwritten, blank or not
modify_object_overwrite(data_, object_name, new_object_name, new_category_name) ==
    LET object == get_object(data_, object_name)
    IN  IF object = None THEN [ok |-> FALSE, data |-> data_]
        ELSE LET o0 == ObjectAt(data_, object)
                 o1 == SetItem(o0, "name", new_object_name)
                 o2 == SetItem(o1, "category", new_category_name)
             IN  [ok |-> TRUE, data |-> StoreObject(data_, object, o2)]

modify_object(data_, object_name, new_object_name, new_category_name) ==
    LET object == get_object(data_, object_name)
    IN  IF object = None THEN [ok |-> FALSE, data |-> data_]
        ELSE LET o0 == ObjectAt(data_, object)
                 o1 == IF new_object_name # Blank
                       THEN SetItem(o0, "name", new_object_name) ELSE o0
                 o2 == IF new_category_name # Blank
                       THEN SetItem(o1, "category", new_category_name) ELSE o1
             IN  [ok |-> TRUE, data |-> StoreObject(data_, object, o2)]

\* get_container_by_name returns a reference to the container, or None; a
\* container that matched holds the key "name", so `if result:` is a test
\* against None.
RECURSIVE get_container_by_name(_, _), get_container_by_name_containers(_, _, _)
get_container_by_name_containers(data_, container_name, j) ==
    LET containers == Get(data_, "containers", <<>>)
    IN  IF j > Len(containers) THEN None
        ELSE LET r == get_container_by_name(containers[j], container_name)
             IN  IF r # None THEN <<j>> \o r
                 ELSE get_container_by_name_containers(data_, container_name, j + 1)

\* variant: the child containers are searched before the node itself
get_container_by_name_children_first(data_, container_name) ==
    LET below == get_container_by_name_containers(data_, container_name, 1)
    IN  IF below # None THEN below
        ELSE IF NameIs(data_, container_name) THEN <<>>
        ELSE None

get_container_by_name(data_, container_name) ==
    IF NameIs(data_, container_name) THEN <<>>
    ELSE get_container_by_name_containers(data_, container_name, 1)

\* ---- sizes, used by the guards that keep the model finite ----------------
RECURSIVE SumSeq(_)
SumSeq(s) == IF s = <<>> THEN 0 ELSE Head(s) + SumSeq(Tail(s))

RECURSIVE CountObjects(_)
CountObjects(node) ==
    LET cs == Get(node, "containers", <<>>)
    IN  Len(Get(node, "objects", <<>>))
        + SumSeq([j \in 1..Len(cs) |-> CountObjects(cs[j])])

RECURSIVE CountContainers(_)
CountContainers(node) ==
    LET cs == Get(node, "containers", <<>>)
    IN  1 + SumSeq([j \in 1..Len(cs) |-> CountContainers(cs[j])])

\* ---- data_storage.py -----------------------------------------------------
\* What the file holds: a JSON document (json.dump then json.load gives back
\* the same dict of strings and lists), nothing because there is no file, or
\* text json.load rejects (empty, cut off, or anything else).
Document(d) == [kind |-> "json", value |-> d]
NoFile == [kind |-> "absent"]
NotJson == [kind |-> "not json"]

\* the empty dict {}
EmptyDict == [k \in {} |-> None]

\* load_json_file: the parsed document, or {} on FileNotFoundError and on
\* JSONDecodeError
load_json_file(file_) == IF file_.kind = "json" THEN file_.value ELSE EmptyDict

\* What the operating system does during the session when the file is
\* written: "writable" lets open and write through; "read-only" refuses
\* open(file_name, "w"); "full" lets open through, which empties the file,
\* and refuses the write somewhere in json.dump.
DiskConditions == {"writable", "read-only", "full"}

\* save_json_file: open(file_name, "w") and json.dump of the whole tree.  An
\* OSError is caught and printed and the function returns normally: raised
\* by open, the file stays as it was; raised while writing, the file is left
\* empty or cut off, neither the old document nor the tree.
save_json_file(data_) ==
    /\ file' = CASE disk = "writable" -> Document(data_)
                 [] disk = "read-only" -> file
                 [] disk = "full" -> NotJson
    /\ saved' = IF disk = "writable" THEN "ok" ELSE "failed"
    /\ UNCHANGED <<disk, loaded>>

\* a handler that returns without calling save_json_file
NoSave ==
    /\ saved' = "none"
    /\ UNCHANGED <<file, disk, loaded>>

\* a handler can start: the program waits at the menu
AtMenu == pc = "menu" /\ crashed = "no"

\* ---- catalog_interface.py ------------------------------------------------
search_object_in_catalog(object_name) ==
    /\ AtMenu
    /\ call' = [op |-> "search", args |-> <<object_name>>]
    /\ result' = get_object_info(data, object_name)
    /\ crashed' = IF result'.raised THEN "KeyError" ELSE "no"
    /\ NoSave
    /\ UNCHANGED <<data, pc, new_container>>

\* variant: the handler returns without saving
delete_object_from_catalog_unsaved(object_name) ==
    /\ AtMenu
    /\ call' = [op |-> "delete", args |-> <<object_name>>]
    /\ LET r == delete_object(data, object_name)
       IN  /\ result' = r.ok
           /\ data' = r.data
           /\ NoSave
    /\ UNCHANGED <<crashed, pc, new_container>>

delete_object_from_catalog(object_name) ==
    /\ AtMenu
    /\ call' = [op |-> "delete", args |-> <<object_name>>]
    /\ LET r == delete_object(data, object_name)
       IN  /\ result' = r.ok
           /\ data' = r.data
           /\ IF r.ok THEN save_json_file(r.data) ELSE NoSave
    /\ UNCHANGED <<crashed, pc, new_container>>

\* variant: the handler saves whatever modify_object returned
modify_object_in_catalog_always_saves(object_name, new_object_name, new_category_name) ==
    /\ AtMenu
    /\ call' = [op |-> "modify",
                args |-> <<object_name, new_object_name, new_category_name>>]
    /\ LET r == modify_object(data, object_name, new_object_name,
                              new_category_name)
       IN  /\ result' = r.ok
           /\ data' = r.data
           /\ save_json_file(r.data)
    /\ UNCHANGED <<crashed, pc, new_container>>

modify_object_in_catalog(object_name, new_object_name, new_category_name) ==
    /\ AtMenu
    /\ call' = [op |-> "modify",
                args |-> <<object_name, new_object_name, new_category_name>>]
    /\ LET r == modify_object(data, object_name, new_object_name,
                              new_category_name)
       IN  /\ result' = r.ok
           /\ data' = r.data
           /\ IF r.ok THEN save_json_file(r.data) ELSE NoSave
    /\ UNCHANGED <<crashed, pc, new_container>>

\* container.get(key, []).append(x): the tree after the append.  When the
\* container lacks the key, the list appended to is the fresh default.
list_append(data_, container, key, x) ==
    LET c == ContainerAt(data_, container)
    IN  IF key \in DOMAIN c
        THEN StoreContainer(data_, container, [c EXCEPT ![key] = Append(@, x)])
        ELSE data_

create_new_object(object_name, object_category) ==
    [name |-> object_name, category |-> object_category]

\* add_object; container_name is the first line typed at the prompt of
\* get_container_for_adding that names a container (the prompt repeats until
\* one does; the tree stays as it was while it repeats).
add_object(object_name, object_category, container_name) ==
    /\ AtMenu
    /\ LET container == get_container_by_name(data, container_name)
       IN  /\ container # None
           /\ call' = [op |-> "add",
                       args |-> <<object_name, object_category, container_name>>]
           /\ result' = container
           /\ data' = list_append(data, container, "objects",
                                  create_new_object(object_name, object_category))
           /\ save_json_file(data')
    /\ UNCHANGED <<crashed, pc, new_container>>

\* a dict that no list of the tree holds
Detached == <<0, 0>>

\* add_object_in_catalog, choice "2", up to the prompt for the object's name:
\* the new, empty container is appended to the containers of the container
\* the user named, and the handler waits for the next line with the tree
\* changed and nothing saved.  When that container lacks the key
\* "containers" the new container ends up in no list of the tree.
add_object_in_catalog_new_container(new_container_name, container_name) ==
    /\ AtMenu
    /\ LET container == get_container_by_name(data, container_name)
           c == ContainerAt(data, container)
           new == [name |-> new_container_name,
                   objects |-> <<>>,
                   containers |-> <<>>]
       IN  /\ container # None
           /\ call' = [op |-> "new container",
                       args |-> <<new_container_name, container_name>>]
           /\ result' = container
           /\ data' = list_append(data, container, "containers", new)
           /\ new_container' = IF "containers" \in DOMAIN c
                               THEN container \o <<Len(c.containers) + 1>>
                               ELSE Detached
    /\ pc' = "create_new_object"
    /\ NoSave
    /\ UNCHANGED crashed

\* add_object_in_catalog, choice "2", from the two lines create_new_object
\* reads on: the object is appended to the objects of new_container (which
\* holds the key "objects") and the whole tree is saved.
add_object_in_catalog_new_object(object_name, object_category) ==
    /\ pc = "create_new_object"
    /\ crashed = "no"
    /\ call' = [op |-> "addc",
                args |-> call.args \o <<object_name, object_category>>]
    /\ data' = IF new_container = Detached THEN data
               ELSE list_append(data, new_container, "objects",
                                create_new_object(object_name, object_category))
    /\ save_json_file(data')
    /\ pc' = "menu"
    /\ new_container' = None
    /\ UNCHANGED <<result, crashed>>

\* input() raises EOFError when the input ends, at the menu or at the prompt
\* a handler waits at; nothing catches it.  Only add_object_in_catalog waits
\* at a prompt after it has changed the tree: every other handler reads all
\* its lines before it calls the function that changes the tree.
input_EOFError ==
    /\ crashed = "no"
    /\ crashed' = "EOFError"
    /\ call' = [op |-> "input", args |-> <<>>]
    /\ UNCHANGED <<data, file, loaded, result, saved, disk, pc, new_container>>

\* ---- the program ---------------------------------------------------------
\* the catalog as first created: the root container "house", empty
EmptyHouse == [name |-> "house", objects |-> <<>>, containers |-> <<>>]

\* user_menu.py: data = load_json_file(file_name), before the first choice
InitWith(file_) ==
    /\ file = file_
    /\ data = load_json_file(file_)
    /\ loaded = (file_.kind = "json")
    /\ call = [op |-> "load", args |-> <<>>]
    /\ result = loaded
    /\ saved = "none"
    /\ disk \in DiskConditions
    /\ pc = "menu"
    /\ new_container = None
    /\ crashed = "no"

\* the file holds the empty catalog, or is missing, or is not JSON
Init == \E file_ \in {Document(EmptyHouse), NoFile, NotJson} : InitWith(file_)

Search == \E n \in ObjectNames : search_object_in_catalog(n)

Delete == \E n \in ObjectNames : delete_object_from_catalog(n)

Modify ==
    \E n \in ObjectNames, nn \in ObjectNames \cup {Blank},
       nc \in Categories \cup {Blank} :
        modify_object_in_catalog(n, nn, nc)

AddObject ==
    /\ CountObjects(data) < MaxObjects
    /\ \E n \in ObjectNames, c \in Categories, cn \in ContainerNames :
           add_object(n, c, cn)

NewContainer ==
    /\ CountObjects(data) < MaxObjects
    /\ CountContainers(data) < MaxContainers
    /\ \E m \in ContainerNames, cn \in ContainerNames :
           add_object_in_catalog_new_container(m, cn)

NewContainerObject ==
    \E n \in ObjectNames, c \in Categories :
        add_object_in_catalog_new_object(n, c)

EndOfInput == input_EOFError

Next ==
    \/ Search
    \/ Delete
    \/ Modify
    \/ AddObject
    \/ NewContainer
    \/ NewContainerObject
    \/ EndOfInput

Spec == Init /\ [][Next]_vars

\* ---- documents in the tolerant-read shape --------------------------------
\* Documents load_json_file may return in which one container lacks its name,
\* its objects or its containers, or one object lacks its name or category:
\* a well-formed document with one key removed somewhere.
Drop(d, key) == [k \in DOMAIN d \ {key} |-> d[k]]

WellFormedDoc ==
    [name |-> "house",
     objects |-> <<[name |-> "b", category |-> "y"]>>,
     containers |-> <<[name |-> "garage",
                       objects |-> <<[name |-> "a", category |-> "x"]>>,
                       containers |-> <<>>]>>]

TolerantDocs ==
    {Drop(WellFormedDoc, k) : k \in {"name", "objects", "containers"}}
    \cup {[WellFormedDoc EXCEPT !.objects[1] = Drop(@, k)] :
             k \in {"name", "category"}}
    \cup {[WellFormedDoc EXCEPT !.containers[1] = Drop(@, k)] :
             k \in {"name", "objects", "containers"}}
    \cup {[WellFormedDoc EXCEPT !.containers[1].objects[1] = Drop(@, k)] :
             k \in {"name", "category"}}

InitTolerant == \E doc \in TolerantDocs : InitWith(Document(doc))

SpecTolerant == InitTolerant /\ [][Next]_vars

\* ---- the traversal order of the data model -------------------------------
RECURSIVE Concat(_)
Concat(ss) == IF ss = <<>> THEN <<>> ELSE Head(ss) \o Concat(Tail(ss))

Under(j, refs) == [k \in 1..Len(refs) |-> <<j>> \o refs[k]]

\* references to every object of the tree: depth first, a node's objects in
\* list order before its child containers in list order
RECURSIVE ObjectRefs(_)
ObjectRefs(node) ==
    LET os == Get(node, "objects", <<>>)
        cs == Get(node, "containers", <<>>)
    IN  [i \in 1..Len(os) |-> <<i>>]
        \o Concat([j \in 1..Len(cs) |-> Under(j, ObjectRefs(cs[j]))])

\* references to every container of the tree in pre-order, the root first
RECURSIVE ContainerRefs(_)
ContainerRefs(node) ==
    LET cs == Get(node, "containers", <<>>)
    IN  <<<<>>>> \o Concat([j \in 1..Len(cs) |-> Under(j, ContainerRefs(cs[j]))])

Least(S) == CHOOSE k \in S : \A m \in S : k <= m

ObjectsNamed(node, n) ==
    LET refs == ObjectRefs(node)
    IN  {k \in 1..Len(refs) : NameIs(ObjectAt(node, refs[k]), n)}

CountNamed(node, n) == Cardinality(ObjectsNamed(node, n))

\* the first object named n in that order, None when there is none
FirstObjectNamed(node, n) ==
    LET refs == ObjectRefs(node)
        hits == {k \in 1..Len(refs) : NameIs(ObjectAt(node, refs[k]), n)}
    IN  IF hits = {} THEN None ELSE refs[Least(hits)]

ContainersNamed(node, n) ==
    LET refs == ContainerRefs(node)
    IN  {k \in 1..Len(refs) : NameIs(ContainerAt(node, refs[k]), n)}

FirstContainerNamed(node, n) ==
    LET refs == ContainerRefs(node)
        hits == {k \in 1..Len(refs) : NameIs(ContainerAt(node, refs[k]), n)}
    IN  IF hits = {} THEN None ELSE refs[Least(hits)]

\* the container holding the object behind ref
ParentOf(ref) == SubSeq(ref, 1, Len(ref) - 1)

\* the tree without the object behind ref
WithoutObject(node, ref) ==
    LET c  == ContainerAt(node, ParentOf(ref))
        i  == ref[Len(ref)]
        os == [k \in 1..(Len(c.objects) - 1) |->
                  IF k < i THEN c.objects[k] ELSE c.objects[k + 1]]
    IN  StoreContainer(node, ParentOf(ref), [c EXCEPT !.objects = os])

\* names of the containers on the way from the root down to the container
\* behind cref, and the same from that container up to the root
RootToParent(node, cref) ==
    [k \in 1..(Len(cref) + 1) |-> ContainerAt(node, SubSeq(cref, 1, k - 1)).name]

ParentToRoot(node, cref) ==
    [k \in 1..(Len(cref) + 1) |->
        ContainerAt(node, SubSeq(cref, 1, Len(cref) + 1 - k)).name]

Reverse(s) == [k \in 1..Len(s) |-> s[Len(s) + 1 - k]]

\* names a prompt may receive: those in use and one that never is
LookupObjectNames == ObjectNames \cup {"hammer"}
LookupContainerNames == ContainerNames \cup {"shelf"}

\* ---- properties ----------------------------------------------------------

\* C1: get_object returns None if and only if no object of the tree, at any
\* depth, bears the name; a modify that reported not-found found no such
\* object.
C1_NotFoundIffAbsent ==
    /\ \A n \in LookupObjectNames :
           (get_object(data, n) = None) <=> (ObjectsNamed(data, n) = {})
    /\ (call.op = "modify" /\ result = FALSE)
           => ObjectsNamed(data, call.args[1]) = {}

\* a modify reported not-found while another object sits two containers deep
C1_Witness ==
    /\ call.op = "modify"
    /\ result = FALSE
    /\ get_object(data, call.args[1]) = None
    /\ \E m \in ObjectNames : Len(get_object(data, m)) = 3

\* C2: get_object, delete_object and modify_object all act on the first
\* object bearing the name in depth-first order, a node's objects before its
\* child containers: delete removes exactly that one, modify touches at most
\* that one, and each reports found exactly when there is one.
C2_FirstMatchWins ==
    [][ (call'.op \in {"delete", "modify"}) =>
            LET n   == call'.args[1]
                ref == FirstObjectNamed(data, n)
            IN  /\ get_object(data, n) = ref
                /\ result' = (ref # None)
                /\ (call'.op = "delete" /\ result')
                       => data' = WithoutObject(data, ref)
                /\ (call'.op = "modify" /\ result')
                       => data' = StoreObject(data, ref, ObjectAt(data', ref))
      ]_vars

\* a delete succeeded and the copy in the second child container is still
\* there, now the first match
C2_Witness ==
    /\ call.op = "delete"
    /\ result = TRUE
    /\ Len(data.containers) = 2
    /\ FirstObjectNamed(data, call.args[1]) = <<2, 1>>

\* C3: get_object_info returns the name and category of the first match,
\* followed by the names of its ancestor containers from its parent up to
\* the root; reversed, that is the chain from the root down to the parent.
C3_PathChildToRoot ==
    (call.op = "search") =>
        LET ref  == FirstObjectNamed(data, call.args[1])
            info == result.value
            path == SubSeq(info, 3, Len(info))
        IN  /\ ~result.raised
            /\ (info = <<>>) <=> (ref = None)
            /\ (ref # None) =>
                   /\ info[1] = ObjectAt(data, ref).name
                   /\ info[2] = ObjectAt(data, ref).category
                   /\ path = ParentToRoot(data, ParentOf(ref))
                   /\ Reverse(path) = RootToParent(data, ParentOf(ref))

\* a search found an object under a container under a container of the
\* root, parent and grandparent named differently
C3_Witness ==
    /\ call.op = "search"
    /\ Len(result.value) = 5
    /\ result.value[3] # result.value[4]
    /\ result.value[5] = "house"

\* C4: modify_object on a found object sets the name only when the new name
\* is not blank and the category only when the new category is not blank,
\* changes nothing else, and with both blank changes nothing at all.
C4_PartialUpdate ==
    [][ (call'.op = "modify" /\ get_object(data, call'.args[1]) # None) =>
            LET ref == get_object(data, call'.args[1])
                old == ObjectAt(data, ref)
                new == ObjectAt(data', ref)
                nn  == call'.args[2]
                nc  == call'.args[3]
            IN  /\ result' = TRUE
                /\ new.name = IF nn # Blank THEN nn ELSE old.name
                /\ new.category = IF nc # Blank THEN nc ELSE old.category
                /\ data' = StoreObject(data, ref, new)
                /\ (nn = Blank /\ nc = Blank) => data' = data
      ]_vars

\* a modify with a blank new name and a new category was applied
C4_Witness ==
    /\ call.op = "modify"
    /\ result = TRUE
    /\ call.args[2] = Blank
    /\ call.args[3] # Blank
    /\ \E k \in 1..Len(ObjectRefs(data)) :
           ObjectAt(data, ObjectRefs(data)[k]) =
               [name |-> call.args[1], category |-> call.args[3]]

\* C5: a successful delete lowers the number of objects bearing the name,
\* and the number of objects, by exactly one; the same delete repeated at
\* once after a success succeeds exactly when a copy is left, that is when
\* the tree held at least two before the first.
C5_DeleteExactlyOnce ==
    [][ (call'.op = "delete") =>
            LET n == call'.args[1]
            IN  /\ result' =>
                       /\ CountNamed(data', n) = CountNamed(data, n) - 1
                       /\ CountObjects(data') = CountObjects(data) - 1
                /\ (call.op = "delete" /\ call.args = call'.args /\ result = TRUE)
                       => (result' = (CountNamed(data, n) + 1 >= 2))
      ]_vars

\* a delete succeeded and one more object of that name is left
C5_Witness ==
    /\ call.op = "delete"
    /\ result = TRUE
    /\ CountNamed(data, call.args[1]) = 1

\* C6: add_object appends the new object to the objects of the container
\* get_container_by_name returned, and get_object then finds the name.
C6_AddAppends ==
    [][ (call'.op = "add") =>
            LET c   == result'
                obj == create_new_object(call'.args[1], call'.args[2])
            IN  /\ c = get_container_by_name(data, call'.args[3])
                /\ Get(ContainerAt(data', c), "objects", <<>>)
                       = Append(Get(ContainerAt(data, c), "objects", <<>>), obj)
                /\ get_object(data', call'.args[1]) # None
      ]_vars

\* C7: no core function raises, whatever keys the document lacks.
C7_NoFatalError ==
    /\ crashed # "KeyError"
    /\ (call.op = "search") => ~result.raised

\* the handlers that call save_json_file before they return
Saving ==
    \/ call.op \in {"add", "addc"}
    \/ (call.op \in {"delete", "modify"} /\ result = TRUE)

\* C8 as the claim states it: every handler that may have changed the tree
\* has called save_json_file before it returned, and whenever the program is
\* back at the menu and the saves succeed, the file holds the tree in memory.
C8_PersistedEqualsTree ==
    /\ Saving => saved = IF disk = "writable" THEN "ok" ELSE "failed"
    /\ (pc = "menu" /\ disk = "writable") => file = Document(data)

\* C8, amended: the same, in a session whose load succeeded.  After a load
\* that failed the tree is {} and stays {}, and the file is never written.
C8_SavedAfterMutation ==
    /\ Saving => saved = IF disk = "writable" THEN "ok" ELSE "failed"
    /\ (loaded /\ pc = "menu" /\ disk = "writable") => file = Document(data)
    /\ ~loaded => (data = EmptyDict /\ file \in {NoFile, NotJson}
                       /\ saved = "none")

\* a delete removed an object and the document was rewritten to match
C8_Witness ==
    /\ loaded
    /\ disk = "writable"
    /\ pc = "menu"
    /\ call.op = "delete"
    /\ result = TRUE
    /\ saved = "ok"
    /\ file = Document(data)
    /\ CountObjects(data) >= 1

\* C9: get_container_by_name returns the first container bearing the name in
\* pre-order, the root included, and None exactly when there is none; the
\* add handlers used that container.
C9_FirstContainerPreOrder ==
    /\ \A n \in LookupContainerNames :
           get_container_by_name(data, n) = FirstContainerNamed(data, n)
    /\ (call.op = "add") => result = FirstContainerNamed(data, call.args[3])
    /\ (call.op \in {"new container", "addc"})
           => result = FirstContainerNamed(data, call.args[2])

\* an object was added to the first of two containers of one name, the
\* second lying deeper in the tree, while no container is named "shelf"
C9_Witness ==
    /\ call.op = "add"
    /\ result # <<>>
    /\ Cardinality(ContainersNamed(data, call.args[3])) = 2
    /\ get_container_by_name(data, "shelf") = None

\* C10: a delete or modify that reports not-found, and a search, leave the
\* tree and the document as they were and do not call save_json_file.
C10_NotFoundChangesNothing ==
    [][ /\ (call'.op \in {"delete", "modify"} /\ result' = FALSE)
               => (data' = data /\ file' = file /\ saved' = "none")
        /\ (call'.op = "search")
               => (data' = data /\ file' = file /\ saved' = "none")
      ]_vars

\* a delete reported not-found on a tree that holds objects
C10_Witness ==
    /\ call.op = "delete"
    /\ result = FALSE
    /\ saved = "none"
    /\ CountObjects(data) >= 1
====
